---- MODULE Spec2Model ----
(***************************************************************************)
(* fix_relation_builder.py: a one-shot patch script.  It reads             *)
(* RelationBuilder.php as UTF-8 text, replaces one literal multi-line      *)
(* block (the needle) by another (the replacement) with str.replace, and   *)
(* writes the text back to the same path.                                  *)
(*                                                                         *)
(* The file on disk is a sequence of bytes, the script's `content` is a    *)
(* sequence of characters.  Both are modelled as sequences of tokens: one  *)
(* token per indentation unit of four spaces, per line feed, carriage      *)
(* return and closing brace, one token per PHP statement text of the two   *)
(* literals, "x" for any other character, and "0xFF" for a byte that is    *)
(* not valid UTF-8.  Every indentation in the two literals is a multiple   *)
(* of four spaces.                                                         *)
(***************************************************************************)
EXTENDS Integers, Sequences, FiniteSets, TLC

(***************************************************************************)
(* Bounds of the model.                                                    *)
(***************************************************************************)
\* the initial file is a concatenation of at most MaxPieces pieces of Pool
MaxPieces == 3
\* how many times the script is started on the same file
MaxRuns == 2
\* tokens the buffered writer hands to the operating system per write call
ChunkLen == 32

(***************************************************************************)
(* Tokens.                                                                 *)
(***************************************************************************)
IND == "    "
LF == "\n"
CR == "\r"
RB == "}"
XC == "x"
BAD == "0xFF"

\* n spaces of indentation, n a multiple of four
Ind(n) == [i \in 1..(n \div 4) |-> IND]

IfCallback == "if ($callback) {"
CallCallback == "$callback($subQuery);"
WheresStmt == "$wheres = $subQuery->getQuery()->wheres ?? [];"
IfNotEmpty == "if (!empty($wheres)) {"
WhereClauseStmt ==
    "$whereClause = ' AND ' . $this->buildWhereClause($wheres, $relatedTable, $subQuery->getBindings());"

(***************************************************************************)
(* The patch rule: the two literals of the content.replace call.           *)
(***************************************************************************)
needle ==
    Ind(8) \o <<IfCallback, LF>> \o
    Ind(12) \o <<CallCallback, LF>> \o
    Ind(8) \o <<RB, LF>> \o
    Ind(12) \o <<WheresStmt, LF>> \o
    Ind(12) \o <<IfNotEmpty, LF>> \o
    Ind(16) \o <<WhereClauseStmt, LF>> \o
    Ind(12) \o <<RB, LF>> \o
    Ind(8) \o <<RB>>

replacement ==
    Ind(8) \o <<IfCallback, LF>> \o
    Ind(12) \o <<CallCallback, LF>> \o
    Ind(8) \o <<RB, LF>> \o
    Ind(8) \o <<WheresStmt, LF>> \o
    Ind(8) \o <<IfNotEmpty, LF>> \o
    Ind(12) \o <<WhereClauseStmt, LF>> \o
    Ind(8) \o <<RB>>

(***************************************************************************)
(* str.find / str.replace on token sequences (1-based; 0 is "not found").  *)
(***************************************************************************)
OccursAt(s, sub, p) ==
    /\ p >= 1
    /\ p + Len(sub) - 1 <= Len(s)
    /\ \A k \in 1..Len(sub) : s[p + k - 1] = sub[k]

Find(s, sub, start) ==
    LET hits == {p \in start..(Len(s) - Len(sub) + 1) : OccursAt(s, sub, p)}
    IN  IF hits = {} THEN 0 ELSE CHOOSE p \in hits : \A q \in hits : p <= q

RECURSIVE ReplaceFrom(_, _, _, _)
ReplaceFrom(s, old, new, start) ==
    LET i == Find(s, old, start)
    IN  IF i = 0
        THEN SubSeq(s, start, Len(s))
        ELSE SubSeq(s, start, i - 1) \o new \o ReplaceFrom(s, old, new, i + Len(old))

\* str.replace(old, new) with count = 1: only the first occurrence
ReplaceFirstOnly(s, old, new) ==
    LET i == Find(s, old, 1)
    IN  IF i = 0
        THEN s
        ELSE SubSeq(s, 1, i - 1) \o new \o SubSeq(s, i + Len(old), Len(s))

\* content.replace(old, new): every occurrence, left to right, non-overlapping
Replace(s, old, new) == ReplaceFrom(s, old, new, 1)

(***************************************************************************)
(* Text-mode I/O of open(..., encoding='utf-8') with the default           *)
(* newline=None.                                                           *)
(***************************************************************************)
Platforms == {"nt", "posix"}

\* os.linesep
LineSep(os) == IF os = "nt" THEN <<CR, LF>> ELSE <<LF>>

ValidUtf8(bytes) == \A i \in 1..Len(bytes) : bytes[i] # BAD

\* universal newlines on input, byte by byte: the "\n" of a "\r\n" is dropped,
\* every "\r" becomes "\n"
InChar(bytes, i) ==
    IF bytes[i] = LF /\ i > 1 /\ bytes[i - 1] = CR THEN << >>
    ELSE IF bytes[i] = CR THEN <<LF>>
    ELSE <<bytes[i]>>

RECURSIVE TranslateIn(_, _, _)
TranslateIn(bytes, lo, hi) ==
    IF lo > hi THEN << >>
    ELSE IF lo = hi THEN InChar(bytes, lo)
    ELSE LET mid == (lo + hi) \div 2
         IN  TranslateIn(bytes, lo, mid) \o TranslateIn(bytes, mid + 1, hi)

\* f.read() of a valid file
Decode(bytes) == TranslateIn(bytes, 1, Len(bytes))

\* newline translation on output: "\n" becomes os.linesep
OutChar(text, os, i) == IF text[i] = LF THEN LineSep(os) ELSE <<text[i]>>

RECURSIVE TranslateOut(_, _, _, _)
TranslateOut(text, os, lo, hi) ==
    IF lo > hi THEN << >>
    ELSE IF lo = hi THEN OutChar(text, os, lo)
    ELSE LET mid == (lo + hi) \div 2
         IN  TranslateOut(text, os, lo, mid) \o TranslateOut(text, os, mid + 1, hi)

\* the bytes f.write(content) produces
Encode(text, os) == TranslateOut(text, os, 1, Len(text))

(***************************************************************************)
(* Initial file contents: the needle as stored with "\n" and with "\r\n"   *)
(* line ends, and a line of other text with either line end.  A file that  *)
(* holds the replacement is what a first run leaves to the second.         *)
(***************************************************************************)
NeedleCrlf == Encode(needle, "nt")
UnixLine == <<XC, LF>>
DosLine == <<XC, CR, LF>>

Pool == {needle, NeedleCrlf, UnixLine, DosLine}

RECURSIVE Concat(_)
Concat(ps) == IF ps = << >> THEN << >> ELSE Head(ps) \o Concat(Tail(ps))

\* text files: at most MaxPieces pieces
TextFiles ==
    {Concat(ps) : ps \in UNION {[1..n -> Pool] : n \in 0..MaxPieces}}

\* files with a byte that is not UTF-8, at the start, inside or at the end
CorruptFiles ==
    {a \o <<BAD>> \o b : a \in Pool \cup {<< >>}, b \in Pool \cup {<< >>}}

Contents == TextFiles \cup CorruptFiles

(***************************************************************************)
(* State.                                                                  *)
(***************************************************************************)
VARIABLES
    platform,   \* the operating system the script runs on
    exists,     \* a file exists at file_path
    readable,   \* the process may open it for reading
    writable,   \* the process may open it for writing
    disk,       \* the bytes of the file
    pc,         \* position of the script
    err,        \* the exception that ended the run, or "none"
    content,    \* the script's variable `content`
    rh,         \* the handle of the first `with` is open
    wh,         \* the handle of the second `with` is open
    pending,    \* bytes written to the handle and not yet on disk
    run,        \* number of the current run
    orig,       \* the bytes of the file when the current run started
    existed,    \* whether the file existed when the current run started
    text0,      \* `content` as read, before the replace call
    writes,     \* times the current run opened the file for writing
    prev,       \* how the previous run ended, "none" in the first run
    prevHits    \* occurrences of the needle the previous run read

vars == <<platform, exists, readable, writable, disk, pc, err, content,
          rh, wh, pending, run, orig, existed, text0, writes, prev, prevHits>>

perms == <<platform, readable, writable>>
hist == <<run, orig, existed, prev, prevHits>>

Occs(s) == {p \in 1..(Len(s) - Len(needle) + 1) : OccursAt(s, needle, p)}

Init ==
    /\ platform \in Platforms
    /\ \/ /\ exists = TRUE
          /\ readable \in BOOLEAN
          /\ writable \in IF readable THEN BOOLEAN ELSE {TRUE}
          /\ disk \in Contents
       \/ /\ exists = FALSE
          /\ readable = FALSE
          /\ writable = FALSE
          /\ disk = << >>
    /\ pc = "start"
    /\ err = "none"
    /\ content = << >>
    /\ rh = FALSE
    /\ wh = FALSE
    /\ pending = << >>
    /\ run = 1
    /\ orig = disk
    /\ existed = exists
    /\ text0 = << >>
    /\ writes = 0
    /\ prev = "none"
    /\ prevHits = 0

\* an exception nothing catches ends the run
Fail(e) ==
    /\ pc' = "failed"
    /\ err' = e

\* open(file_path, 'a+'): a missing file is created
OpenReadCreates ==
    /\ pc = "start"
    /\ IF exists /\ ~readable
       THEN Fail("PermissionError") /\ UNCHANGED <<rh, exists>>
       ELSE pc' = "opened_r" /\ rh' = TRUE /\ exists' = TRUE /\ err' = err
    /\ UNCHANGED <<perms, hist, disk, content, wh, pending, text0, writes>>

\* with open(file_path, 'r', encoding='utf-8') as f:
OpenRead ==
    /\ pc = "start"
    /\ IF ~exists THEN Fail("FileNotFoundError") /\ rh' = rh
       ELSE IF ~readable THEN Fail("PermissionError") /\ rh' = rh
       ELSE pc' = "opened_r" /\ rh' = TRUE /\ err' = err
    /\ UNCHANGED <<perms, hist, exists, disk, content, wh, pending, text0, writes>>

\* f.read() with errors='ignore': undecodable bytes are dropped
ReadAllIgnoresErrors ==
    /\ pc = "opened_r"
    /\ LET good == SelectSeq(disk, LAMBDA b : b # BAD)
       IN  /\ content' = Decode(good)
           /\ text0' = Decode(good)
    /\ pc' = "read"
    /\ UNCHANGED <<perms, hist, exists, disk, err, rh, wh, pending, writes>>

\* content = f.read(); a decode error leaves the with block, closing f
ReadAll ==
    /\ pc = "opened_r"
    /\ IF ValidUtf8(disk)
       THEN /\ content' = Decode(disk)
            /\ text0' = Decode(disk)
            /\ pc' = "read"
            /\ UNCHANGED <<err, rh>>
       ELSE /\ Fail("UnicodeDecodeError")
            /\ rh' = FALSE
            /\ UNCHANGED <<content, text0>>
    /\ UNCHANGED <<perms, hist, exists, disk, wh, pending, writes>>

\* end of the first with block
CloseRead ==
    /\ pc = "read"
    /\ rh' = FALSE
    /\ pc' = "closed_r"
    /\ UNCHANGED <<perms, hist, exists, disk, err, content, wh, pending, text0, writes>>

\* content.replace(replacement, needle): the two literals swapped
ReplaceStepSwapped ==
    /\ pc = "closed_r"
    /\ content' = Replace(content, replacement, needle)
    /\ pc' = "replaced"
    /\ UNCHANGED <<perms, hist, exists, disk, err, rh, wh, pending, text0, writes>>

\* content = content.replace(needle, replacement)
ReplaceStep ==
    /\ pc = "closed_r"
    /\ content' = Replace(content, needle, replacement)
    /\ pc' = "replaced"
    /\ UNCHANGED <<perms, hist, exists, disk, err, rh, wh, pending, text0, writes>>

\* open(file_path, 'a', ...): nothing is truncated, the text is appended
OpenWriteAppend ==
    /\ pc = "replaced"
    /\ IF ~writable
       THEN /\ Fail("PermissionError")
            /\ UNCHANGED <<wh, writes>>
       ELSE /\ wh' = TRUE
            /\ writes' = writes + 1
            /\ pc' = "opened_w"
            /\ err' = err
    /\ UNCHANGED <<perms, hist, exists, disk, content, rh, pending, text0>>

\* the open wrapped in try/except: a PermissionError is swallowed
OpenWriteSwallows ==
    /\ pc = "replaced"
    /\ IF ~writable
       THEN /\ pc' = "done"
            /\ err' = "PermissionError"
            /\ UNCHANGED <<disk, wh, writes>>
       ELSE /\ disk' = << >>
            /\ wh' = TRUE
            /\ writes' = writes + 1
            /\ pc' = "opened_w"
            /\ err' = err
    /\ UNCHANGED <<perms, hist, exists, content, rh, pending, text0>>

\* with open(file_path, 'w', encoding='utf-8') as f: the open truncates
OpenWrite ==
    /\ pc = "replaced"
    /\ IF ~writable
       THEN /\ Fail("PermissionError")
            /\ UNCHANGED <<disk, wh, writes>>
       ELSE /\ disk' = << >>
            /\ wh' = TRUE
            /\ writes' = writes + 1
            /\ pc' = "opened_w"
            /\ err' = err
    /\ UNCHANGED <<perms, hist, exists, content, rh, pending, text0>>

\* f.write(content): the encoded text goes to the handle's buffer
WriteAll ==
    /\ pc = "opened_w"
    /\ pending' = Encode(content, platform)
    /\ pc' = "written"
    /\ UNCHANGED <<perms, hist, exists, disk, err, content, rh, wh, text0, writes>>

\* the buffered writer passes the next chunk to the operating system
FlushChunk ==
    /\ pc = "written"
    /\ pending # << >>
    /\ LET n == IF Len(pending) < ChunkLen THEN Len(pending) ELSE ChunkLen
       IN  /\ disk' = disk \o SubSeq(pending, 1, n)
           /\ pending' = SubSeq(pending, n + 1, Len(pending))
    /\ UNCHANGED <<perms, hist, exists, pc, err, content, rh, wh, text0, writes>>

\* end of the second with block, and of the script
CloseWrite ==
    /\ pc = "written"
    /\ pending = << >>
    /\ wh' = FALSE
    /\ pc' = "done"
    /\ UNCHANGED <<perms, hist, exists, disk, err, content, rh, pending, text0, writes>>

\* the script is started again on the same file
Rerun ==
    /\ pc \in {"done", "failed"}
    /\ run < MaxRuns
    /\ run' = run + 1
    /\ prev' = pc
    /\ prevHits' = Cardinality(Occs(text0))
    /\ pc' = "start"
    /\ err' = "none"
    /\ content' = << >>
    /\ text0' = << >>
    /\ orig' = disk
    /\ existed' = exists
    /\ writes' = 0
    /\ UNCHANGED <<perms, exists, disk, rh, wh, pending>>

Step ==
    \/ OpenRead
    \/ ReadAll
    \/ CloseRead
    \/ ReplaceStep
    \/ OpenWrite
    \/ WriteAll
    \/ FlushChunk
    \/ CloseWrite

Next ==
    \/ Step
    \/ Rerun

Spec == Init /\ [][Next]_vars

\* the interpreter runs a started script to its end
FairSpec == Spec /\ WF_vars(Step)

(***************************************************************************)
(* Vocabulary of the properties.                                           *)
(***************************************************************************)
\* the script is past the replace call of the current run
PostReplace == {"replaced", "opened_w", "written", "done"}

\* the text of the file as the script reads it (UTF-8, universal newlines)
TextOf(bytes) == Decode(bytes)

\* s with the needle-long block at p replaced by the replacement
PatchedAt(s, p) ==
    SubSeq(s, 1, p - 1) \o replacement \o SubSeq(s, p + Len(needle), Len(s))

\* the occurrences a left-to-right scan for non-overlapping matches selects
RECURSIVE Scan(_, _)
Scan(s, from) ==
    LET hits == {p \in Occs(s) : p >= from}
    IN  IF hits = {} THEN {}
        ELSE LET m == CHOOSE p \in hits : \A q \in hits : p <= q
             IN  {m} \cup Scan(s, m + Len(needle))

IsPrefix(a, b) == Len(a) <= Len(b) /\ \A i \in 1..Len(a) : a[i] = b[i]

(***************************************************************************)
(* C1.  As stated: whenever the text of the file before a run is           *)
(* A + needle + B, for any split A, B, the text of the file after the      *)
(* completed run is A + replacement + B.                                   *)
(***************************************************************************)
C1_AnySplit ==
    pc = "done" =>
        \A p \in Occs(TextOf(orig)) : TextOf(disk) = PatchedAt(TextOf(orig), p)

\* C1, amended: if the text of the file before a run is A + needle + B and
\* the needle occurs in it nowhere but at offset |A|, the text of the file
\* after the completed run is A + replacement + B.
C1_SingleOccurrence ==
    pc = "done" =>
        \A p \in Occs(TextOf(orig)) :
            Occs(TextOf(orig)) = {p} => TextOf(disk) = PatchedAt(TextOf(orig), p)

\* a completed run on a file A + needle + B with A and B not empty
C1_Witness ==
    /\ pc = "done"
    /\ \E p \in Occs(TextOf(orig)) :
          /\ Occs(TextOf(orig)) = {p}
          /\ p > 1
          /\ p + Len(needle) - 1 < Len(TextOf(orig))

(***************************************************************************)
(* C2.  The replace call replaces every occurrence of the needle that a    *)
(* left-to-right scan for non-overlapping matches finds: the new content   *)
(* has the replacement in the place of each, every character outside the   *)
(* matches is kept in place and in order, and a completed run leaves that  *)
(* text in the file.                                                       *)
(***************************************************************************)
C2_AllOccurrences ==
    pc \in PostReplace =>
        LET M == Scan(text0, 1)
            d == Len(needle) - Len(replacement)
            Shift(i) == d * Cardinality({q \in M : q < i})
        IN  /\ Len(content) = Len(text0) - d * Cardinality(M)
            /\ \A p \in M : OccursAt(content, replacement, p - Shift(p))
            /\ \A i \in 1..Len(text0) :
                  (\A q \in M : i < q \/ i >= q + Len(needle))
                      => content[i - Shift(i)] = text0[i]
            /\ pc = "done" => TextOf(disk) = content

\* a completed run whose file held the needle twice, with other text around
C2_Witness ==
    /\ pc = "done"
    /\ Cardinality(Scan(text0, 1)) = 2
    /\ Len(text0) > 2 * Len(needle)

(***************************************************************************)
(* C3.  A run on a file without the needle completes, opens the file for   *)
(* writing once, and leaves the bytes of the file as they were.            *)
(***************************************************************************)
C3_NoMatchUnchanged ==
    /\ (existed /\ readable /\ writable /\ ValidUtf8(orig) /\ Occs(TextOf(orig)) = {})
           => pc # "failed"
    /\ (pc = "done" /\ Occs(text0) = {}) => (writes = 1 /\ disk = orig)

(***************************************************************************)
(* C4.  The needle and the replacement differ and the replacement does not *)
(* contain the needle; a run right after a completed run leaves the bytes  *)
(* of the file as the first run left them.                                 *)
(***************************************************************************)
C4_SecondRunUnchanged ==
    (needle # replacement /\ Find(replacement, needle, 1) = 0)
        => ((prev = "done" /\ pc = "done") => disk = orig)

\* a second completed run after a first one that replaced the needle
C4_Witness ==
    /\ needle # replacement
    /\ Find(replacement, needle, 1) = 0
    /\ prev = "done"
    /\ prevHits > 0
    /\ pc = "done"
    /\ run = 2

(***************************************************************************)
(* C5.  With no file at the path the run fails in the open for reading     *)
(* with FileNotFoundError, never opens anything, and creates no file.      *)
(***************************************************************************)
C5_MissingFile ==
    ~existed =>
        /\ pc \in {"start", "failed"}
        /\ pc = "failed" => err = "FileNotFoundError"
        /\ ~exists
        /\ disk = << >>
        /\ writes = 0
        /\ ~rh /\ ~wh

\* a run that failed on the missing file
C5_Witness == ~existed /\ pc = "failed" /\ err = "FileNotFoundError"

(***************************************************************************)
(* C6.  On a file that can be read and not written the read succeeds, the  *)
(* run fails with PermissionError in the open for writing, and the bytes   *)
(* of the file stay as they were: not truncated, not partly written.       *)
(***************************************************************************)
C6_ReadOnlyFile ==
    (existed /\ readable /\ ~writable /\ ValidUtf8(orig)) =>
        /\ pc \in {"start", "opened_r", "read", "closed_r", "replaced", "failed"}
        /\ pc = "failed" =>
              /\ err = "PermissionError"
              /\ text0 = TextOf(orig)
              /\ ~rh
        /\ disk = orig
        /\ writes = 0
        /\ ~wh

\* a run that failed on a read-only file holding the needle
C6_Witness ==
    /\ existed /\ readable /\ ~writable
    /\ pc = "failed"
    /\ err = "PermissionError"
    /\ Occs(text0) # {}

(***************************************************************************)
(* C7.  On a file that is not valid UTF-8 the run fails with               *)
(* UnicodeDecodeError in the read, before the replace call; the file is    *)
(* never opened for writing and its bytes stay as they were.               *)
(***************************************************************************)
C7_InvalidUtf8 ==
    (existed /\ readable /\ ~ValidUtf8(orig)) =>
        /\ pc \in {"start", "opened_r", "failed"}
        /\ pc = "failed" => (err = "UnicodeDecodeError" /\ ~rh)
        /\ content = << >>
        /\ disk = orig
        /\ writes = 0
        /\ ~wh

\* a run that failed on a writable file with an undecodable byte
C7_Witness ==
    /\ existed /\ readable /\ writable
    /\ ~ValidUtf8(orig)
    /\ Len(orig) > 1
    /\ pc = "failed"
    /\ err = "UnicodeDecodeError"

(***************************************************************************)
(* C8.  The file is opened for writing only after it has been read, the    *)
(* read handle closed and the new content computed, and at most once per   *)
(* run.                                                                    *)
(***************************************************************************)
C8_Ordering ==
    /\ writes <= 1
    /\ ~(rh /\ wh)
    /\ (wh \/ writes > 0) =>
          /\ ~rh
          /\ pc \in {"opened_w", "written", "done"}
          /\ text0 = TextOf(orig)
          /\ content = Replace(text0, needle, replacement)

\* C8 as stated: ... and in every state the file holds its original bytes or
\* the complete new content, never a partial or empty content in between.
C8_NeverPartial ==
    /\ C8_Ordering
    /\ \/ disk = orig
       \/ pc \in PostReplace /\ disk = Encode(content, platform)

\* C8, amended: ... and in every state the file holds its original bytes or,
\* from the open for writing on, a prefix of the encoded new content: empty
\* after the truncating open, growing with each flushed chunk, complete when
\* the run is done.
C8_OriginalOrPrefix ==
    /\ C8_Ordering
    /\ \/ writes = 0 /\ disk = orig
       \/ /\ writes = 1
          /\ IsPrefix(disk, Encode(content, platform))
          /\ pc = "written" => disk \o pending = Encode(content, platform)
          /\ pc = "done" => disk = Encode(content, platform)

\* the file holds a proper, non-empty part of the new content
C8_Witness ==
    /\ pc = "written"
    /\ disk # << >>
    /\ pending # << >>
    /\ disk # orig

(***************************************************************************)
(* C9.  Every started run ends in "done" or in "failed"; a failure is      *)
(* final: no step of the run follows it; "done" is reached only from the   *)
(* close of the write handle, with the whole new content in the file.      *)
(***************************************************************************)
C9_Terminates == (pc = "start") ~> (pc \in {"done", "failed"})

C9_FailureFinal ==
    [][pc = "failed" => (pc' = "failed" \/ (pc' = "start" /\ run' = run + 1))]_vars

C9_DoneAfterWrite ==
    /\ pc = "done" =>
          /\ err = "none"
          /\ writes = 1
          /\ ~rh /\ ~wh
          /\ pending = << >>
          /\ disk = Encode(content, platform)
    /\ pc = "failed" => (err # "none" /\ ~rh /\ ~wh)

C9_SingleLinearPass ==
    /\ C9_Terminates
    /\ C9_FailureFinal
    /\ []C9_DoneAfterWrite
    /\ [][pc' = "done" => (pc = "done" \/ (pc = "written" /\ pending = << >>))]_vars

\* a first run that failed after the file was read
C9_Witness == run = 1 /\ pc = "failed" /\ text0 # << >>

(***************************************************************************)
(* C10.  The needle does not overlap itself, the replacement and the       *)
(* needle do not overlap or contain each other, so no text around a        *)
(* replacement forms the needle anew: after the replace call the content   *)
(* holds no needle, neither does the text of the file after a completed    *)
(* run, and the replace call of a run after a completed run changes        *)
(* nothing.                                                                *)
(***************************************************************************)
\* a non-empty proper suffix of a is a prefix of b
Overlaps(a, b) ==
    \E k \in 1..(Len(a) - 1) :
        k <= Len(b) /\ SubSeq(a, Len(a) - k + 1, Len(a)) = SubSeq(b, 1, k)

C10_NeedleNotReformed ==
    /\ ~Overlaps(needle, needle)
    /\ ~Overlaps(needle, replacement)
    /\ ~Overlaps(replacement, needle)
    /\ Find(needle, replacement, 1) = 0
    /\ Find(replacement, needle, 1) = 0
    /\ pc \in PostReplace => Occs(content) = {}
    /\ pc = "done" => Occs(TextOf(disk)) = {}
    /\ (prev = "done" /\ pc \in PostReplace) => content = text0

\* the replace call of a second run, after a first run replaced two needles
C10_Witness ==
    /\ prev = "done"
    /\ prevHits >= 2
    /\ pc = "replaced"

====
